---- MODULE Spec2Model ----
(***************************************************************************)
(* NMR2Struct, nmr/training/trainer.py: the fit orchestrator with its      *)
(* top-K checkpoint retention, the checkpoint files on disk, the metrics   *)
(* sink lifecycle, the file name built by save_model and the three epoch   *)
(* loops; nmr/scripts/top_level_utils.py: save_array_set and               *)
(* save_inference_predictions; nmr/training/loss_fxns.py:                  *)
(* subs_weighted_BCE.  Each function outside fit has a specification of    *)
(* its own, in which fit is not running.                                   *)
(*                                                                         *)
(* Losses are floats in the program.  In fit a loss is modelled by a whole *)
(* number (k stands for k.0) or by Inf, the one non-finite value (np.inf;  *)
(* a NaN metric takes the same branch, "metric < max" being false too).    *)
(* save_model's formatting is modelled on a loss given as whole part and   *)
(* billionths, so that the rounding of the eighth decimal is visible.      *)
(* Python lists and numpy arrays are 0-based; the sequences here are       *)
(* 1-based, so slot i of the program is index i + 1 of the model.          *)
(***************************************************************************)
EXTENDS Integers, Sequences, FiniteSets, TLC

\* ---------------------------------------------------------------- bounds
MaxK == 2
MaxEpochs == 4
MaxNameEpoch == 2
MaxWhole == 1

\* ------------------------------------------------------ program constants
\* default of fit's test_freq parameter
DefaultTestFreq == 10
\* digits after the decimal point in save_model's format specifier
LossPlaces == 8

\* ------------------------------------------------------------------ state
VARIABLES
    top_checkpoints_n,   \* K, parameter of fit
    nepochs,             \* parameter of fit
    loss_metric,         \* "train" or "val", parameter of fit
    test_freq,           \* parameter of fit
    prev_epochs,         \* parameter of fit
    pc,                  \* position of fit
    epoch,               \* loop variable of fit
    true_epoch,          \* None until the loop body binds it
    best_losses,         \* K slot metrics
    model_names,         \* K slot file names, None when absent
    train_losses,
    val_losses,
    test_losses,
    curr_k_metric_value, \* locals of the checkpoint decision
    max_loss_idx,
    model_name,
    disk,                \* checkpoint files present in save_dir
    saved,               \* log of the torch.save calls that completed
    removed,             \* log of the os.remove calls that completed
    writer,              \* the metrics sink: "open" or "closed"
    late_scalars,        \* passes whose add_scalar calls came after close
    test_at,             \* log of the epoch arguments of the test_loop calls
    error,               \* the exception that ended fit, "none" otherwise
    sm,                  \* one call of save_model: arguments and result
    sa,                  \* one call of save_array_set
    sip,                 \* one call of save_inference_predictions
    bce,                 \* one call of subs_weighted_BCE
    lp                   \* one call of train_loop, validation_loop or test_loop

fitvars == <<top_checkpoints_n, nepochs, loss_metric, test_freq, prev_epochs,
             pc, epoch, true_epoch, best_losses, model_names, train_losses,
             val_losses, test_losses, curr_k_metric_value, max_loss_idx,
             model_name, disk, saved, removed, writer, late_scalars, test_at,
             error>>

vars == <<fitvars, sm, sa, sip, bce, lp>>

\* ------------------------------------------------------------ value model
None == <<>>

Some(x) == <<x>>

\* np.inf: above every finite loss of the model
Inf == 6

\* the mean losses a pass can return: 1.0, 3.0, 4.0, 5.0
FiniteLosses == {1, 3, 4, 5}

Losses == FiniteLosses \cup {Inf}

\* a pass whose mean loss fit only appends to a history and never compares
UncomparedLosses == {0}

\* the test_freq arguments tried: every other epoch, and the default
TestFreqs == {2, DefaultTestFreq}

\* the prev_epochs arguments tried: a fresh run, and a run resumed after one epoch
PrevEpochs == {0, 1}

\* ---------------------------------------------------------------- helpers
RECURSIVE Pow10(_)
Pow10(k) == IF k = 0 THEN 1 ELSE 10 * Pow10(k - 1)

\* the billionths of a loss: one decimal more than the format keeps
NanoPlaces == LossPlaces + 1

\* the digits of q, most significant first, zero-padded to `places` digits
Digits(q, places) == [i \in 1 .. places |-> (q \div Pow10(places - i)) % 10]

\* f"{x:.<places>f}" of the loss x = w + n / 10^NanoPlaces: the decimal
\* nearest to the double x.  When the dropped digits are exactly one half the
\* double lies on either side of the tie (5e-09 prints 0.00000001 and 2.5e-08
\* prints 0.00000002), so both neighbours are outcomes.
FormatFixed(w, n, places) ==
    LET unit == Pow10(NanoPlaces - places)
        q == n \div unit
        r == n % unit
        ups == IF 2 * r < unit THEN {q}
               ELSE IF 2 * r > unit THEN {q + 1}
               ELSE {q, q + 1}
    IN  { IF u = Pow10(places)
            THEN [whole |-> w + 1, frac |-> Digits(0, places)]
            ELSE [whole |-> w, frac |-> Digits(u, places)] : u \in ups }

SaveNamesSixPlaces(ep, w, n, tag) ==
    { [epoch |-> ep, whole |-> f.whole, frac |-> f.frac,
       suffix |-> IF tag = "" THEN <<>> ELSE <<"_", tag>>] :
      f \in FormatFixed(w, n, LossPlaces - 2) }

\* the savename of save_model (savedir is the one directory `disk` models)
SaveNames(ep, w, n, tag) ==
    { [epoch |-> ep, whole |-> f.whole, frac |-> f.frac,
       suffix |-> IF tag = "" THEN <<>> ELSE <<"_", tag>>] :
      f \in FormatFixed(w, n, LossPlaces) }

ArgMin(a) ==
    CHOOSE i \in 1 .. Len(a) :
        /\ \A j \in 1 .. Len(a) : a[i] <= a[j]
        /\ \A j \in 1 .. (i - 1) : a[i] < a[j]

ArgMaxLast(a) ==
    CHOOSE i \in 1 .. Len(a) :
        /\ \A j \in 1 .. Len(a) : a[j] <= a[i]
        /\ \A j \in (i + 1) .. Len(a) : a[j] < a[i]

\* np.argmax: the index of the maximum, the first one among equal maxima
ArgMax(a) ==
    CHOOSE i \in 1 .. Len(a) :
        /\ \A j \in 1 .. Len(a) : a[j] <= a[i]
        /\ \A j \in 1 .. (i - 1) : a[j] < a[i]

TestDueLoopEpoch == epoch % test_freq = 0

\* line 193: the test split runs when the absolute epoch divides by test_freq
TestDue == true_epoch[1] % test_freq = 0

\* the pc after the body of the for loop: next iteration or the code after it
AfterBody == IF epoch + 1 < nepochs THEN "train" ELSE "flush"

\* the mean loss a pass over `split` returns
PassLosses(split) == IF split = loss_metric THEN Losses ELSE UncomparedLosses

NoCall == [st |-> "idle", epoch |-> 0, whole |-> 0, nano |-> 0, tag |-> "", out |-> None]

\* billionths given to save_model: exact, below, at and above the half, carry
Nanos == {0, 4, 5, 6, 15, 123456784, 123456785, 999999994, 999999995, 999999999}

Tags == {"", "best"}

\* -------------------------------------------------------------------- fit
\* lines 172-174 and the first test of the for loop
InitFit ==
    /\ top_checkpoints_n \in 1 .. MaxK
    /\ nepochs \in 0 .. MaxEpochs
    /\ loss_metric \in {"train", "val"}
    /\ test_freq \in TestFreqs
    /\ prev_epochs \in PrevEpochs
    /\ pc = IF nepochs > 0 THEN "train" ELSE "flush"
    /\ epoch = 0
    /\ true_epoch = None
    /\ best_losses = [i \in 1 .. top_checkpoints_n |-> Inf]
    /\ model_names = [i \in 1 .. top_checkpoints_n |-> None]
    /\ train_losses = <<>>
    /\ val_losses = <<>>
    /\ test_losses = <<>>
    /\ curr_k_metric_value = 0
    /\ max_loss_idx = 1
    /\ model_name = None
    /\ disk = {}
    /\ saved = <<>>
    /\ removed = <<>>
    /\ writer = "open"
    /\ late_scalars = 0
    /\ test_at = <<>>
    /\ error = "none"

\* no call of the other functions is in progress
Idle == [st |-> "idle"]

Init ==
    /\ InitFit
    /\ sm = NoCall
    /\ sa = Idle
    /\ sip = Idle
    /\ bce = Idle
    /\ lp = Idle

\* a pass (train_loop, validation_loop, test_loop) sends its add_scalar events
Emit == late_scalars' = IF writer = "closed" THEN late_scalars + 1 ELSE late_scalars

RaiseAndRetry(e) ==
    /\ pc' = pc
    /\ error' = e

Raise(e) ==
    /\ pc' = "raised"
    /\ error' = e

\* lines 176-185: bind true_epoch, run train_loop, append its mean loss
TrainPass ==
    /\ pc = "train"
    /\ true_epoch' = Some(epoch + prev_epochs)
    /\ \E l \in PassLosses("train") : train_losses' = Append(train_losses, l)
    /\ Emit
    /\ pc' = "val"
    /\ UNCHANGED <<top_checkpoints_n, nepochs, loss_metric, test_freq, prev_epochs,
                   test_at,
                   epoch, best_losses, model_names, val_losses, test_losses,
                   curr_k_metric_value, max_loss_idx, model_name, disk, saved,
                   removed, writer, error, sm, sa, sip, bce, lp>>

\* lines 186-193: run validation_loop, append, decide whether to test
ValPass ==
    /\ pc = "val"
    /\ \E l \in PassLosses("val") : val_losses' = Append(val_losses, l)
    /\ Emit
    /\ pc' = IF TestDue THEN "test" ELSE "consider"
    /\ UNCHANGED <<top_checkpoints_n, nepochs, loss_metric, test_freq, prev_epochs,
                   test_at,
                   epoch, true_epoch, best_losses, model_names, train_losses,
                   test_losses, curr_k_metric_value, max_loss_idx, model_name,
                   disk, saved, removed, writer, error, sm, sa, sip, bce, lp>>

\* lines 194-200: the test pass inside the loop
TestPass ==
    /\ pc = "test"
    /\ \E l \in PassLosses("test") : test_losses' = Append(test_losses, l)
    /\ Emit
    /\ test_at' = Append(test_at, true_epoch[1])
    /\ pc' = "consider"
    /\ UNCHANGED <<top_checkpoints_n, nepochs, loss_metric, test_freq, prev_epochs,
                   epoch, true_epoch, best_losses, model_names, train_losses,
                   val_losses, curr_k_metric_value, max_loss_idx, model_name,
                   disk, saved, removed, writer, error, sm, sa, sip, bce, lp>>

\* model.get_loss raises in a batch of the pass at pc (train_loop line 33,
\* validation_loop line 68, test_loop line 97): the exception leaves fit
PassRaises ==
    /\ pc \in {"train", "val", "test"}
    /\ true_epoch' = IF pc = "train" THEN Some(epoch + prev_epochs) ELSE true_epoch
    /\ Raise("loss")
    /\ UNCHANGED <<top_checkpoints_n, nepochs, loss_metric, test_freq, prev_epochs,
                   test_at,
                   epoch, best_losses, model_names, train_losses, val_losses,
                   test_losses, curr_k_metric_value, max_loss_idx, model_name,
                   disk, saved, removed, writer, late_scalars, sm, sa, sip, bce, lp>>

ConsiderBeatsBest ==
    /\ pc = "consider"
    /\ LET curr == IF loss_metric = "train" THEN train_losses[Len(train_losses)]
                   ELSE val_losses[Len(val_losses)]
           idx == ArgMax(best_losses)
       IN  /\ curr_k_metric_value' = curr
           /\ max_loss_idx' = idx
           /\ IF \A i \in 1 .. Len(best_losses) :
                    best_losses[i] = Inf \/ curr < best_losses[i]
                THEN /\ pc' = IF model_names[idx] # None THEN "delete" ELSE "save"
                     /\ epoch' = epoch
                ELSE /\ pc' = AfterBody
                     /\ epoch' = epoch + 1
    /\ UNCHANGED <<top_checkpoints_n, nepochs, loss_metric, test_freq, prev_epochs,
                   test_at,
                   true_epoch, best_losses, model_names, train_losses, val_losses,
                   test_losses, model_name, disk, saved, removed, writer,
                   late_scalars, error, sm, sa, sip, bce, lp>>

\* lines 202-207: pick the metric and the worst slot, compare
Consider ==
    /\ pc = "consider"
    /\ LET curr == IF loss_metric = "train" THEN train_losses[Len(train_losses)]
                   ELSE val_losses[Len(val_losses)]
           idx == ArgMax(best_losses)
       IN  /\ curr_k_metric_value' = curr
           /\ max_loss_idx' = idx
           /\ IF curr < best_losses[idx]
                THEN /\ pc' = IF model_names[idx] # None THEN "delete" ELSE "save"
                     /\ epoch' = epoch
                ELSE /\ pc' = AfterBody
                     /\ epoch' = epoch + 1
    /\ UNCHANGED <<top_checkpoints_n, nepochs, loss_metric, test_freq, prev_epochs,
                   test_at,
                   true_epoch, best_losses, model_names, train_losses, val_losses,
                   test_losses, model_name, disk, saved, removed, writer,
                   late_scalars, error, sm, sa, sip, bce, lp>>

DeleteCheckpointKeepsFile ==
    /\ pc = "delete"
    /\ pc' = "save"
    /\ UNCHANGED <<top_checkpoints_n, nepochs, loss_metric, test_freq, prev_epochs,
                   test_at,
                   epoch, true_epoch, best_losses, model_names, train_losses,
                   val_losses, test_losses, curr_k_metric_value, max_loss_idx,
                   model_name, disk, saved, removed, writer, late_scalars, error, sm, sa, sip, bce, lp>>

\* line 208, delete_checkpoint: os.remove of the evicted slot's file
DeleteCheckpoint ==
    /\ pc = "delete"
    /\ model_names[max_loss_idx][1] \in disk
    /\ disk' = disk \ {model_names[max_loss_idx][1]}
    /\ removed' = Append(removed, model_names[max_loss_idx][1])
    /\ pc' = "save"
    /\ UNCHANGED <<top_checkpoints_n, nepochs, loss_metric, test_freq, prev_epochs,
                   test_at,
                   epoch, true_epoch, best_losses, model_names, train_losses,
                   val_losses, test_losses, curr_k_metric_value, max_loss_idx,
                   model_name, saved, writer, late_scalars, error, sm, sa, sip, bce, lp>>

\* os.remove raises (file missing or not removable): nothing is removed
DeleteRaises ==
    /\ pc = "delete"
    /\ Raise("delete")
    /\ UNCHANGED <<top_checkpoints_n, nepochs, loss_metric, test_freq, prev_epochs,
                   test_at,
                   epoch, true_epoch, best_losses, model_names, train_losses,
                   val_losses, test_losses, curr_k_metric_value, max_loss_idx,
                   model_name, disk, saved, removed, writer, late_scalars, sm, sa, sip, bce, lp>>

SaveModelNoWrite ==
    /\ pc = "save"
    /\ \E name \in SaveNames(true_epoch[1], curr_k_metric_value, 0, "") :
          /\ saved' = Append(saved, name)
          /\ model_name' = Some(name)
    /\ pc' = "update"
    /\ UNCHANGED <<top_checkpoints_n, nepochs, loss_metric, test_freq, prev_epochs,
                   test_at,
                   epoch, true_epoch, best_losses, model_names, train_losses,
                   val_losses, test_losses, curr_k_metric_value, max_loss_idx,
                   disk, removed, writer, late_scalars, error, sm, sa, sip, bce, lp>>

\* lines 209-213, save_model: build the name, torch.save, return the name
SaveModel ==
    /\ pc = "save"
    /\ \E name \in SaveNames(true_epoch[1], curr_k_metric_value, 0, "") :
          /\ disk' = disk \cup {name}
          /\ saved' = Append(saved, name)
          /\ model_name' = Some(name)
    /\ pc' = "update"
    /\ UNCHANGED <<top_checkpoints_n, nepochs, loss_metric, test_freq, prev_epochs,
                   test_at,
                   epoch, true_epoch, best_losses, model_names, train_losses,
                   val_losses, test_losses, curr_k_metric_value, max_loss_idx,
                   removed, writer, late_scalars, error, sm, sa, sip, bce, lp>>

\* torch.save raises: no file is written and save_model returns nothing
SaveRaises ==
    /\ pc = "save"
    /\ Raise("save")
    /\ UNCHANGED <<top_checkpoints_n, nepochs, loss_metric, test_freq, prev_epochs,
                   test_at,
                   epoch, true_epoch, best_losses, model_names, train_losses,
                   val_losses, test_losses, curr_k_metric_value, max_loss_idx,
                   model_name, disk, saved, removed, writer, late_scalars, sm, sa, sip, bce, lp>>

UpdateSlotLossOnly ==
    /\ pc = "update"
    /\ best_losses' = [best_losses EXCEPT ![max_loss_idx] = curr_k_metric_value]
    /\ epoch' = epoch + 1
    /\ pc' = AfterBody
    /\ UNCHANGED <<top_checkpoints_n, nepochs, loss_metric, test_freq, prev_epochs,
                   test_at,
                   true_epoch, model_names, train_losses, val_losses, test_losses,
                   curr_k_metric_value, max_loss_idx, model_name, disk, saved,
                   removed, writer, late_scalars, error, sm, sa, sip, bce, lp>>

\* lines 215-216 and the step of the for loop
UpdateSlot ==
    /\ pc = "update"
    /\ best_losses' = [best_losses EXCEPT ![max_loss_idx] = curr_k_metric_value]
    /\ model_names' = [model_names EXCEPT ![max_loss_idx] = model_name]
    /\ epoch' = epoch + 1
    /\ pc' = AfterBody
    /\ UNCHANGED <<top_checkpoints_n, nepochs, loss_metric, test_freq, prev_epochs,
                   test_at,
                   true_epoch, train_losses, val_losses, test_losses,
                   curr_k_metric_value, max_loss_idx, model_name, disk, saved,
                   removed, writer, late_scalars, error, sm, sa, sip, bce, lp>>

\* lines 217-218: writer.flush(), writer.close()
CloseWriter ==
    /\ pc = "flush"
    /\ writer' = "closed"
    /\ pc' = "final_test"
    /\ UNCHANGED <<top_checkpoints_n, nepochs, loss_metric, test_freq, prev_epochs,
                   test_at,
                   epoch, true_epoch, best_losses, model_names, train_losses,
                   val_losses, test_losses, curr_k_metric_value, max_loss_idx,
                   model_name, disk, saved, removed, late_scalars, error, sm, sa, sip, bce, lp>>

\* lines 219-225: the final test pass, at the last epoch's true_epoch
FinalTestPass ==
    /\ pc = "final_test"
    /\ true_epoch # None
    /\ \E l \in PassLosses("test") : test_losses' = Append(test_losses, l)
    /\ Emit
    /\ test_at' = Append(test_at, true_epoch[1])
    /\ pc' = "assert"
    /\ UNCHANGED <<top_checkpoints_n, nepochs, loss_metric, test_freq, prev_epochs,
                   epoch, true_epoch, best_losses, model_names, train_losses,
                   val_losses, curr_k_metric_value, max_loss_idx, model_name,
                   disk, saved, removed, writer, error, sm, sa, sip, bce, lp>>

FinalTestUnboundRuns ==
    /\ pc = "final_test"
    /\ true_epoch = None
    /\ \E l \in PassLosses("test") : test_losses' = Append(test_losses, l)
    /\ Emit
    /\ test_at' = Append(test_at, prev_epochs)
    /\ pc' = "assert"
    /\ UNCHANGED <<top_checkpoints_n, nepochs, loss_metric, test_freq, prev_epochs,
                   epoch, true_epoch, best_losses, model_names, train_losses,
                   val_losses, curr_k_metric_value, max_loss_idx, model_name,
                   disk, saved, removed, writer, error, sm, sa, sip, bce, lp>>

\* line 222 with no loop iteration behind it: true_epoch is unbound
FinalTestUnbound ==
    /\ pc = "final_test"
    /\ true_epoch = None
    /\ Raise("NameError")
    /\ UNCHANGED <<top_checkpoints_n, nepochs, loss_metric, test_freq, prev_epochs,
                   test_at,
                   epoch, true_epoch, best_losses, model_names, train_losses,
                   val_losses, test_losses, curr_k_metric_value, max_loss_idx,
                   model_name, disk, saved, removed, writer, late_scalars, sm, sa, sip, bce, lp>>

\* model.get_loss raises in the final test pass
FinalTestRaises ==
    /\ pc = "final_test"
    /\ true_epoch # None
    /\ Raise("loss")
    /\ UNCHANGED <<top_checkpoints_n, nepochs, loss_metric, test_freq, prev_epochs,
                   test_at,
                   epoch, true_epoch, best_losses, model_names, train_losses,
                   val_losses, test_losses, curr_k_metric_value, max_loss_idx,
                   model_name, disk, saved, removed, writer, late_scalars, sm, sa, sip, bce, lp>>

\* the two closing assertions, lines 226-228
AssertionsHold ==
    nepochs >= top_checkpoints_n =>
        /\ \A i \in 1 .. Len(model_names) : model_names[i] # None
        /\ \A i \in 1 .. Len(best_losses) : best_losses[i] < Inf

\* lines 226-229: assert, then return
ReturnFit ==
    /\ pc = "assert"
    /\ AssertionsHold
    /\ pc' = "done"
    /\ UNCHANGED <<top_checkpoints_n, nepochs, loss_metric, test_freq, prev_epochs,
                   test_at,
                   epoch, true_epoch, best_losses, model_names, train_losses,
                   val_losses, test_losses, curr_k_metric_value, max_loss_idx,
                   model_name, disk, saved, removed, writer, late_scalars, error, sm, sa, sip, bce, lp>>

AssertRaises ==
    /\ pc = "assert"
    /\ ~AssertionsHold
    /\ Raise("AssertionError")
    /\ UNCHANGED <<top_checkpoints_n, nepochs, loss_metric, test_freq, prev_epochs,
                   test_at,
                   epoch, true_epoch, best_losses, model_names, train_losses,
                   val_losses, test_losses, curr_k_metric_value, max_loss_idx,
                   model_name, disk, saved, removed, writer, late_scalars, sm, sa, sip, bce, lp>>

Next ==
    \/ TrainPass
    \/ ValPass
    \/ TestPass
    \/ PassRaises
    \/ Consider
    \/ DeleteCheckpoint
    \/ DeleteRaises
    \/ SaveModel
    \/ SaveRaises
    \/ UpdateSlot
    \/ CloseWriter
    \/ FinalTestPass
    \/ FinalTestUnbound
    \/ FinalTestRaises
    \/ ReturnFit
    \/ AssertRaises

Spec == Init /\ [][Next]_vars

\* ------------------------------------------------------------- save_model
\* one call of save_model on its own: fit is not running, the directory is
\* empty, the arguments are drawn from the bounded sets
InitSave ==
    /\ top_checkpoints_n = 1
    /\ nepochs = 0
    /\ loss_metric = "val"
    /\ test_freq = DefaultTestFreq
    /\ prev_epochs = 0
    /\ pc = "idle"
    /\ epoch = 0
    /\ true_epoch = None
    /\ best_losses = <<Inf>>
    /\ model_names = <<None>>
    /\ train_losses = <<>>
    /\ val_losses = <<>>
    /\ test_losses = <<>>
    /\ curr_k_metric_value = 0
    /\ max_loss_idx = 1
    /\ model_name = None
    /\ disk = {}
    /\ saved = <<>>
    /\ removed = <<>>
    /\ writer = "open"
    /\ late_scalars = 0
    /\ test_at = <<>>
    /\ error = "none"
    /\ sm \in [st : {"call"}, epoch : 0 .. MaxNameEpoch, whole : 0 .. MaxWhole,
               nano : Nanos, tag : Tags, out : {None}]
    /\ sa = Idle
    /\ sip = Idle
    /\ bce = Idle
    /\ lp = Idle

\* save_model, lines 120-127: build savename, torch.save to it, return it
SaveModelCall ==
    /\ sm.st = "call"
    /\ \E name \in SaveNames(sm.epoch, sm.whole, sm.nano, sm.tag) :
          /\ disk' = disk \cup {name}
          /\ saved' = Append(saved, name)
          /\ sm' = [sm EXCEPT !.st = "returned", !.out = Some(name)]
    /\ UNCHANGED <<top_checkpoints_n, nepochs, loss_metric, test_freq, prev_epochs,
                   test_at,
                   pc, epoch, true_epoch, best_losses, model_names, train_losses,
                   val_losses, test_losses, curr_k_metric_value, max_loss_idx,
                   model_name, removed, writer, late_scalars, error,
                   sa, sip, bce, lp>>

NextSave == SaveModelCall

SpecSave == InitSave /\ [][NextSave]_vars

\* ------------------------------------------------------------- properties
\* the selection metrics of the epochs run so far, in order
Metrics == IF loss_metric = "train" THEN train_losses ELSE val_losses

\* the metrics whose checkpoint decision is complete
Considered == SubSeq(Metrics, 1, epoch)

AllFinite(m) == \A n \in 1 .. Len(m) : m[n] \in FiniteLosses

Count(a, v) == Cardinality({i \in 1 .. Len(a) : a[i] = v})

Smaller(a, v) == Cardinality({i \in 1 .. Len(a) : a[i] < v})

Min2(x, y) == IF x < y THEN x ELSE y

Max0(x) == IF x > 0 THEN x ELSE 0

\* how often v occurs among the k smallest entries of m, Inf filling the rest
KSmallestCount(m, k, v) ==
    IF v = Inf THEN Max0(k - Len(m))
    ELSE Min2(Count(m, v), Max0(k - Smaller(m, v)))

Filled == {i \in 1 .. Len(model_names) : model_names[i] # None}

LoopDone == epoch = nepochs

\* C1: after the last epoch of a run whose metrics are all finite, the slot
\* metrics are, as a multiset, the K smallest metrics of the run, with
\* +infinity in the slots left over when fewer than K epochs ran; K = 2 with
\* metrics 5, 3, 4, 1 ends with 3 and 1, having removed the files of 5 then 4.
C1_TopKRetention ==
    (LoopDone /\ AllFinite(Metrics)) =>
        /\ \A v \in Losses :
              Count(best_losses, v) = KSmallestCount(Metrics, top_checkpoints_n, v)
        /\ (top_checkpoints_n = 2 /\ Metrics = <<5, 3, 4, 1>>) =>
              /\ {best_losses[i] : i \in 1 .. Len(best_losses)} = {3, 1}
              /\ [i \in 1 .. Len(removed) |-> removed[i].whole] = <<5, 4>>

C1_Witness ==
    /\ LoopDone
    /\ top_checkpoints_n = 2
    /\ Metrics = <<5, 3, 4, 1>>
    /\ pc = "done"

\* C2: in every state of fit there are exactly K slot metrics and K slot
\* names, a slot's metric is +infinity exactly when its name is absent, and a
\* filled slot holds a finite metric and the name of a file.
C2_SlotInvariant ==
    /\ Len(best_losses) = top_checkpoints_n
    /\ Len(model_names) = top_checkpoints_n
    /\ \A i \in 1 .. top_checkpoints_n :
          /\ best_losses[i] = Inf <=> model_names[i] = None
          /\ model_names[i] # None =>
                /\ best_losses[i] \in FiniteLosses
                /\ Len(model_names[i]) = 1
                /\ model_names[i][1].whole = best_losses[i]
                /\ model_names[i][1].suffix = <<>>

C2_Witness ==
    /\ pc = "train"
    /\ \E i, j \in 1 .. top_checkpoints_n :
          model_names[i] # None /\ model_names[j] = None

FirstMax(a, i) ==
    /\ \A j \in 1 .. Len(a) : a[j] <= a[i]
    /\ \A j \in 1 .. (i - 1) : a[j] < a[i]

\* C3: one epoch's checkpoint decision changes at most one slot.  The slots
\* change only in the step that ends the epoch, and then only the first slot
\* holding the maximum metric changes, to the epoch's metric and the new file
\* name, that metric being strictly less than the slot's; the directory
\* changes only for such a metric; a metric that is not strictly less ends the
\* epoch with slots, files written and files removed all unchanged.
C3_OneSlotPerEpoch ==
    [][ /\ (best_losses' # best_losses \/ model_names' # model_names) =>
              /\ epoch' = epoch + 1
              /\ \E i \in 1 .. Len(best_losses) :
                    /\ FirstMax(best_losses, i)
                    /\ Metrics[epoch + 1] < best_losses[i]
                    /\ best_losses' = [best_losses EXCEPT ![i] = Metrics[epoch + 1]]
                    /\ model_names' = [model_names EXCEPT ![i] = model_name]
        /\ (disk' # disk \/ saved' # saved \/ removed' # removed) =>
              \E i \in 1 .. Len(best_losses) :
                    /\ FirstMax(best_losses, i)
                    /\ Metrics[epoch + 1] < best_losses[i]
        /\ (/\ pc = "consider"
            /\ \A i \in 1 .. Len(best_losses) :
                  FirstMax(best_losses, i) => ~(Metrics[epoch + 1] < best_losses[i])) =>
              /\ epoch' = epoch + 1
              /\ pc' \notin {"delete", "save", "update"}
              /\ UNCHANGED <<best_losses, model_names, disk, saved, removed>>
      ]_vars

\* a rejected metric and a replacement of a filled slot have both happened,
\* and the slots hold a tie for the maximum
C3_Witness ==
    /\ pc = "update"
    /\ Len(removed) >= 1
    /\ Len(saved) <= epoch
    /\ \E i, j \in 1 .. Len(best_losses) : i # j /\ best_losses[i] = best_losses[j]

\* the absolute epochs of the loop at which line 193 lets the test split run
DueEpochs == {e + prev_epochs : e \in {x \in 0 .. (nepochs - 1) :
                                        (x + prev_epochs) % test_freq = 0}}

\* C4: when fit returns, test_loop has run inside the loop exactly at the
\* absolute epochs divisible by test_freq, in order, and once more after the
\* loop at the last absolute epoch; test_losses has one entry per run, so its
\* length is the number of such epochs plus one; nepochs = 3, test_freq = 10,
\* prev_epochs = 0 gives exactly two runs.
C4_TestPasses ==
    pc = "done" =>
        /\ Len(test_losses) = Cardinality(DueEpochs) + 1
        /\ Len(test_at) = Len(test_losses)
        /\ {test_at[i] : i \in 1 .. (Len(test_at) - 1)} = DueEpochs
        /\ \A i, j \in 1 .. (Len(test_at) - 1) : i < j => test_at[i] < test_at[j]
        /\ test_at[Len(test_at)] = nepochs - 1 + prev_epochs
        /\ (nepochs = 3 /\ test_freq = 10 /\ prev_epochs = 0) => Len(test_at) = 2

C4_Witness ==
    /\ pc = "done"
    /\ nepochs = 3
    /\ test_freq = 10
    /\ prev_epochs = 0
    /\ Len(test_losses) = 2

\* C5: with nepochs >= K and every metric finite, each of the first K epochs
\* fills one more slot, so after the loop every slot is filled, every best
\* metric is finite, and the closing assertions do not fail.
C5_Postcondition ==
    /\ AllFinite(Considered) => Cardinality(Filled) = Min2(epoch, top_checkpoints_n)
    /\ (LoopDone /\ nepochs >= top_checkpoints_n /\ AllFinite(Metrics)) =>
          /\ \A i \in 1 .. top_checkpoints_n :
                model_names[i] # None /\ best_losses[i] < Inf
          /\ error # "AssertionError"

\* a returned run in which a later epoch did not improve on an earlier one
C5_Witness ==
    /\ pc = "done"
    /\ nepochs >= top_checkpoints_n
    /\ top_checkpoints_n = 2
    /\ AllFinite(Metrics)
    /\ \E n \in 1 .. (Len(Metrics) - 1) : Metrics[n] <= Metrics[n + 1]

Dangling == {i \in 1 .. Len(model_names) :
                model_names[i] # None /\ model_names[i][1] \notin disk}

\* C6, as claimed: at every step of a replacement, also between delete, save
\* and slot update and after a failed save, no slot names a file that is not
\* on disk.
C6_NoDanglingAtAnyStep == Dangling = {}

\* C6, amended: a slot names a missing file only inside the replacement of
\* that very slot, from the removal of its old file until the slot is
\* updated, and in the state a failed save leaves behind; everywhere else,
\* epoch boundaries included, every named file is on disk, and the new file
\* is on disk before the slot is updated to name it.
C6_DanglingOnlyInWindow ==
    /\ Dangling # {} =>
          /\ Dangling = {max_loss_idx}
          /\ pc \in {"save", "update"} \/ (pc = "raised" /\ error = "save")
          /\ Len(removed) >= 1
          /\ removed[Len(removed)] = model_names[max_loss_idx][1]
    /\ pc = "update" => (model_name # None /\ model_name[1] \in disk)

\* the new file is written and the replaced slot still names the removed one
C6_Witness ==
    /\ pc = "update"
    /\ Dangling = {max_loss_idx}
    /\ model_name[1] \in disk

\* C7: while no I/O operation has failed, outside the steps of a replacement
\* (so at the end of every epoch) the files this run has written that are
\* still on disk are exactly the names in model_names: at most K of them, no
\* removed file among them, every evicted file removed.
C7_NoLeakedCheckpoints ==
    (error = "none" /\ pc \notin {"save", "update"}) =>
        /\ {saved[i] : i \in 1 .. Len(saved)} \cap disk =
              {model_names[i][1] : i \in Filled}
        /\ Cardinality({saved[i] : i \in 1 .. Len(saved)} \cap disk) <= top_checkpoints_n
        /\ {saved[i] : i \in 1 .. Len(saved)} \ {model_names[i][1] : i \in Filled} =
              {removed[i] : i \in 1 .. Len(removed)}
        /\ {removed[i] : i \in 1 .. Len(removed)} \cap disk = {}

\* a returned run that wrote more files than it has slots
C7_Witness ==
    /\ pc = "done"
    /\ Len(saved) > top_checkpoints_n
    /\ Len(removed) >= 2

\* C8, as claimed: no pass sends add_scalar events to the sink after the sink
\* has been flushed and closed.
C8_CloseIsLast == late_scalars = 0

\* C9, as claimed: never more than K filled slots; after N >= K decisions on
\* strictly decreasing metrics every slot is filled, the slots hold the K
\* latest metrics, and a larger slot metric means an earlier insertion.
StrictlyDecreasing(m) == \A n \in 1 .. (Len(m) - 1) : m[n] > m[n + 1]

RetainedLatest ==
    /\ Filled = 1 .. top_checkpoints_n
    /\ {best_losses[i] : i \in 1 .. top_checkpoints_n} =
          {Considered[n] : n \in (epoch - top_checkpoints_n + 1) .. epoch}
    /\ \A i, j \in 1 .. top_checkpoints_n :
          best_losses[i] > best_losses[j] <=>
              model_names[i][1].epoch < model_names[j][1].epoch

RECURSIVE FracValue(_)
FracValue(d) ==
    IF d = <<>> THEN 0 ELSE 10 * FracValue(SubSeq(d, 1, Len(d) - 1)) + d[Len(d)]

Abs(x) == IF x < 0 THEN 0 - x ELSE x

\* the name save_model returned carries the epoch, the tag exactly when it is
\* not empty, and a loss field of `places` decimals nearest to the loss
NameEncodes(places) ==
    LET name == sm.out[1]
        unit == Pow10(NanoPlaces - places)
    IN  /\ name.epoch = sm.epoch
        /\ name.suffix = IF sm.tag = "" THEN <<>> ELSE <<"_", sm.tag>>
        /\ Len(name.frac) = places
        /\ \A i \in 1 .. Len(name.frac) : name.frac[i] \in 0 .. 9
        /\ 2 * Abs((name.whole - sm.whole) * Pow10(NanoPlaces)
                   + FracValue(name.frac) * unit - sm.nano) <= unit
        /\ name \in disk

\* C10, as claimed: the loss field is the loss rounded to six decimals.
C10_SixDecimals == sm.st = "returned" => NameEncodes(6)

\* C10, amended: the loss field is the loss rounded to eight decimals: exactly
\* eight digits after the decimal point; the epoch and the non-empty tag are
\* encoded as claimed.
C10_EightDecimals == sm.st = "returned" => NameEncodes(8)

\* a tagged name whose ninth decimal was rounded away with a carry
C10_Witness ==
    /\ sm.st = "returned"
    /\ sm.tag # ""
    /\ sm.nano = 999999995
    /\ sm.out[1].whole = sm.whole + 1

\* C13: an exception raised by a pass's loss computation, by save_model or by
\* delete_checkpoint leaves fit at once: the step that raises ends fit, after
\* it no variable of fit changes (no pass, no epoch, no retry of the failed
\* step, no file written or removed), and fit returns only with no exception.
C13_FailFast ==
    [][ /\ error' # "none" => pc' = "raised"
        /\ error # "none" => UNCHANGED fitvars
        /\ pc = "raised" => UNCHANGED fitvars
        /\ pc' = "done" => error' = "none"
      ]_vars

\* a save failed after the old file was removed, with epochs still to run
C13_Witness ==
    /\ pc = "raised"
    /\ error = "save"
    /\ Len(removed) >= 1
    /\ epoch + 1 < nepochs

\* C14: with nepochs = 0 the loop body never runs, true_epoch stays unbound,
\* no loss is recorded and no checkpoint written; fit closes the sink, then
\* fails on true_epoch at the final test pass and never returns.
C14_ZeroEpochs ==
    nepochs = 0 =>
        /\ pc \in {"flush", "final_test", "raised"}
        /\ true_epoch = None
        /\ train_losses = <<>> /\ val_losses = <<>> /\ test_losses = <<>>
        /\ test_at = <<>>
        /\ saved = <<>> /\ disk = {}
        /\ \A i \in 1 .. Len(model_names) : model_names[i] = None
        /\ pc \in {"final_test", "raised"} => writer = "closed"
        /\ pc = "raised" => error = "NameError"
        /\ pc = "flush" => writer = "open"

C14_Witness ==
    /\ nepochs = 0
    /\ pc = "raised"
    /\ error = "NameError"
    /\ writer = "closed"

\* the absolute epochs of the train_loop and validation_loop calls so far
TrainAt == [n \in 1 .. Len(train_losses) |-> prev_epochs + n - 1]

ValAt == [n \in 1 .. Len(val_losses) |-> prev_epochs + n - 1]

Increasing(q) == \A i, j \in 1 .. Len(q) : i < j => q[i] < q[j]

\* C18, as claimed: within one run the steps of every metric name strictly
\* increase.  A pass at epoch e over B >= 1 batches sends the steps
\* e * B, ..., e * B + B - 1 under its step-loss name and the step e under
\* its average name, so a name's steps strictly increase exactly when the
\* epoch arguments of its loop's calls do, the final test pass included.
C18_StepsIncrease ==
    /\ Increasing(TrainAt)
    /\ Increasing(ValAt)
    /\ Increasing(test_at)

\* ==================================================== the other functions
\* fit is not running: its variables rest at fixed values
ParkedFit ==
    /\ top_checkpoints_n = 1
    /\ nepochs = 0
    /\ loss_metric = "val"
    /\ test_freq = DefaultTestFreq
    /\ prev_epochs = 0
    /\ pc = "idle"
    /\ epoch = 0
    /\ true_epoch = None
    /\ best_losses = <<Inf>>
    /\ model_names = <<None>>
    /\ train_losses = <<>>
    /\ val_losses = <<>>
    /\ test_losses = <<>>
    /\ curr_k_metric_value = 0
    /\ max_loss_idx = 1
    /\ model_name = None
    /\ disk = {}
    /\ saved = <<>>
    /\ removed = <<>>
    /\ writer = "open"
    /\ late_scalars = 0
    /\ test_at = <<>>
    /\ error = "none"

\* --------------------------------------------------------- save_array_set
\* bounds of the prediction sets
MaxLen == 5
MaxArrays == 3

\* pad_token of save_array_set
PadToken == 999999

\* first tokens of the arrays tried; real tokens lie far below PadToken
Tokens == {1, 2}

\* a numeric prediction: n tokens, here t, t + 1, ... so that positions differ
Arrays == {[i \in 1 .. n |-> t + i - 1] : n \in 0 .. MaxLen, t \in Tokens}

\* the (targets, predictions per target) shapes: every target has the same
\* number of predictions, as np.array(predictions) requires
Shapes == {sh \in (1 .. MaxArrays) \X (1 .. MaxArrays) : sh[1] * sh[2] <= MaxArrays}

\* preds of a split: a list of tuples (tgt, [pred, ...])
PredSets ==
    UNION {[1 .. sh[1] -> [tgt : {<<0>>}, preds : [1 .. sh[2] -> Arrays]]] : sh \in Shapes}

RECURSIVE Flatten(_)
\* reduce(lambda x, y: x + y, preds): the lists of all targets, concatenated
Flatten(ll) == IF ll = <<>> THEN <<>> ELSE Head(ll) \o Flatten(Tail(ll))

MaxOf(S) == CHOOSE m \in S : \A x \in S : x <= m

FindMaxLengthFirstTarget(predictions) ==
    MaxOf({Len(predictions[1][i]) : i \in 1 .. Len(predictions[1])})

\* find_max_length, lines 107-110
FindMaxLength(predictions) ==
    LET flattened_preds == Flatten(predictions)
    IN  MaxOf({Len(flattened_preds[i]) : i \in 1 .. Len(flattened_preds)})

\* np.pad(elem, (0, max_len - len(elem)), 'constant', constant_values = ...)
PadRight(elem, max_len, pad_token) ==
    elem \o [i \in 1 .. (max_len - Len(elem)) |-> pad_token]

\* pad_single_prediction, lines 112-122
PadSinglePrediction(pred, max_len, pad_token) ==
    [k \in 1 .. Len(pred) |-> PadRight(pred[k], max_len, pad_token)]

InitPad ==
    /\ ParkedFit
    /\ sm = NoCall
    /\ sa \in [st : {"call"}, preds : PredSets, group : {None}]
    /\ sip = Idle
    /\ bce = Idle
    /\ lp = Idle

\* save_array_set, lines 136-146, on an h5py file: the group it creates
SaveArraySet ==
    /\ sa.st = "call"
    /\ LET targets == [e \in 1 .. Len(sa.preds) |-> sa.preds[e].tgt]
           predictions == [e \in 1 .. Len(sa.preds) |-> sa.preds[e].preds]
           max_len == FindMaxLength(predictions)
           padded == [e \in 1 .. Len(predictions) |->
                         PadSinglePrediction(predictions[e], max_len, PadToken)]
       IN  sa' = [sa EXCEPT !.st = "returned",
                            !.group = Some([targets |-> targets,
                                            predictions |-> padded,
                                            additional_pad_token |-> PadToken])]
    /\ UNCHANGED <<fitvars, sm, sip, bce, lp>>

NextPad == SaveArraySet

SpecPad == InitPad /\ [][NextPad]_vars

RECURSIVE StripTrailing(_, _)
\* what a reader of the file does: drop the trailing entries equal to `pad`
StripTrailing(row, pad) ==
    IF row # <<>> /\ row[Len(row)] = pad
      THEN StripTrailing(SubSeq(row, 1, Len(row) - 1), pad)
      ELSE row

\* the lengths of all predictions of the set, target by target
InputLengths ==
    LET flat == Flatten([e \in 1 .. Len(sa.preds) |-> sa.preds[e].preds])
    IN  [i \in 1 .. Len(flat) |-> Len(flat[i])]

\* C11: save_array_set stores every prediction as a row whose width is the
\* greatest length over all predictions of all targets of the set (lengths
\* 3, 5, 2 give width 5), the original tokens first and the pad token after
\* them, stores the pad token 999999 with the matrix, and dropping the
\* trailing entries equal to the stored pad token gives back each original.
C11_PaddingRoundTrip ==
    sa.st = "returned" =>
        LET g == sa.group[1]
            width == MaxOf({InputLengths[i] : i \in 1 .. Len(InputLengths)})
        IN  /\ g.additional_pad_token = 999999
            /\ Len(g.predictions) = Len(sa.preds)
            /\ InputLengths = <<3, 5, 2>> => width = 5
            /\ \A e \in 1 .. Len(sa.preds) :
                  /\ Len(g.predictions[e]) = Len(sa.preds[e].preds)
                  /\ \A k \in 1 .. Len(sa.preds[e].preds) :
                        /\ Len(g.predictions[e][k]) = width
                        /\ SubSeq(g.predictions[e][k], 1, Len(sa.preds[e].preds[k]))
                              = sa.preds[e].preds[k]
                        /\ StripTrailing(g.predictions[e][k], g.additional_pad_token)
                              = sa.preds[e].preds[k]

\* three targets with predictions of lengths 3, 5, 2 were padded to width 5
C11_Witness ==
    /\ sa.st = "returned"
    /\ Len(sa.preds) = 3
    /\ InputLengths = <<3, 5, 2>>
    /\ Len(sa.group[1].predictions[3][1]) = 5

\* --------------------------------------------- save_inference_predictions
\* a record of a prediction list, by the Python types that the function
\* inspects: the record itself (tuple or not), its target (element 0) and the
\* payload of its predictions (the elements of element 1)
Records == [is_tuple : BOOLEAN, tgt : {"str", "ndarray", "other"},
            payload : {"str", "ndarray"}]

\* an argument of save_inference_predictions: None, an empty list, or a list
\* holding one record
PredLists == {None, Some(<<>>)} \cup {Some(<<r>>) : r \in Records}

InitInfer ==
    /\ ParkedFit
    /\ sm = NoCall
    /\ sa = Idle
    /\ sip \in [st : {"call"}, train : PredLists, val : PredLists, test : PredLists,
                test_element : {None}, file : {None}, save_fxn : {"unbound"},
                written : {{}}, error : {"none"}]
    /\ bce = Idle
    /\ lp = Idle

\* lines 167-169: take the first train record, assert it is a tuple, open the
\* output with the builtin open, which gives a text file object
TakeFirstAndOpen ==
    /\ sip.st = "call"
    /\ sip.train # None
    /\ sip.train[1] # <<>>
    /\ sip.train[1][1].is_tuple
    /\ sip' = [sip EXCEPT !.st = "opened",
                          !.test_element = Some(sip.train[1][1]),
                          !.file = Some([kind |-> "text", open |-> TRUE])]
    /\ UNCHANGED <<fitvars, sm, sa, bce, lp>>

\* line 167 on None (TypeError) or on an empty list (IndexError), line 168 on
\* a record that is no tuple (AssertionError)
TakeFirstRaises ==
    /\ sip.st = "call"
    /\ \/ sip.train = None /\ sip' = [sip EXCEPT !.st = "raised", !.error = "TypeError"]
       \/ sip.train = Some(<<>>)
             /\ sip' = [sip EXCEPT !.st = "raised", !.error = "IndexError"]
       \/ sip.train # None /\ sip.train[1] # <<>> /\ ~sip.train[1][1].is_tuple
             /\ sip' = [sip EXCEPT !.st = "raised", !.error = "AssertionError",
                                   !.test_element = Some(sip.train[1][1])]
    /\ UNCHANGED <<fitvars, sm, sa, bce, lp>>

\* lines 170-173: the save function chosen from the type of test_element[0];
\* no branch binds save_fxn for any other type
Dispatch ==
    /\ sip.st = "opened"
    /\ sip' = [sip EXCEPT !.st = "dispatched",
                          !.save_fxn = IF sip.test_element[1].tgt = "str"
                                         THEN "save_str_set"
                                       ELSE IF sip.test_element[1].tgt = "ndarray"
                                         THEN "save_array_set"
                                       ELSE "unbound"]
    /\ UNCHANGED <<fitvars, sm, sa, bce, lp>>

\* save_fxn(f, preds, name) for one split, from the outcome `o` of the splits
\* before it.  A skipped (None) split and a split after a failure change
\* nothing; an unbound save_fxn raises at the call; save_array_set pads the
\* payloads before it touches the file, which numpy may refuse for strings;
\* then h5ptr.create_group (lines 103, 143) exists on an h5py file only.
SaveSplit(o, fxn, file, preds, name) ==
    IF o.error # "none" \/ preds = None THEN {o}
    ELSE IF fxn = "unbound" THEN {[o EXCEPT !.error = "UnboundLocalError"]}
    ELSE (IF fxn = "save_array_set" /\ preds[1] # <<>> /\ preds[1][1].payload = "str"
            THEN {[o EXCEPT !.error = "ValueError"]} ELSE {})
         \cup
         (IF file.kind = "h5" THEN {[o EXCEPT !.written = @ \cup {name}]}
            ELSE {[o EXCEPT !.error = "AttributeError"]})

\* lines 174-179: the three guarded calls, in order
SaveOutcomes ==
    LET o0 == [written |-> {}, error |-> "none"]
        f == sip.file[1]
        S1 == SaveSplit(o0, sip.save_fxn, f, sip.train, "train")
        S2 == UNION {SaveSplit(o, sip.save_fxn, f, sip.val, "val") : o \in S1}
    IN  UNION {SaveSplit(o, sip.save_fxn, f, sip.test, "test") : o \in S2}

\* lines 174-179 and the end of the with block, which closes the file; here
\* the first call always raises, train_predictions being a list and f a text
\* file, so the function never returns
SaveSplitsRaises ==
    /\ sip.st = "dispatched"
    /\ \E o \in SaveOutcomes :
          /\ o.error # "none"
          /\ sip' = [sip EXCEPT !.st = "raised", !.error = o.error,
                                !.written = o.written,
                                !.file = Some([kind |-> "text", open |-> FALSE])]
    /\ UNCHANGED <<fitvars, sm, sa, bce, lp>>

NextInfer ==
    \/ TakeFirstAndOpen
    \/ TakeFirstRaises
    \/ Dispatch
    \/ SaveSplitsRaises

SpecInfer == InitInfer /\ [][NextInfer]_vars

Supplied ==
    (IF sip.train # None THEN {"train"} ELSE {})
    \cup (IF sip.val # None THEN {"val"} ELSE {})
    \cup (IF sip.test # None THEN {"test"} ELSE {})

\* C12, as claimed: for every combination of supplied and absent lists the
\* call completes, never ends in an exception, and on completion the sections
\* written are exactly the supplied splits.
C12_WritesSuppliedSplits ==
    /\ sip.st # "raised"
    /\ sip.st = "returned" => sip.written = Supplied

\* C17, as claimed: once the save function is chosen it is save_str_set for a
\* first record with string predictions and save_array_set for one with array
\* predictions, whatever the record's target, so one is always chosen.
C17_DispatchOnPayload ==
    (sip.st = "dispatched" \/ (sip.st = "raised" /\ sip.file # None)) =>
        sip.save_fxn = IF sip.test_element[1].payload = "str"
                         THEN "save_str_set" ELSE "save_array_set"

\* ------------------------------------------------------ subs_weighted_BCE
\* bounds of the tensors' shapes
MaxBatch == 2

MaxOff == 2

\* the number of substructures the assertion of line 29 fixes
NumSubstructures == 957

\* numbers of classes a caller may pass: one, and those around the fixed one
Classes == {1} \cup ((NumSubstructures - MaxOff) .. (NumSubstructures + MaxOff))

\* a tensor is modelled by its shape; the arguments have the shapes the
\* docstring gives them, lines 13-17
LossCalls ==
    { [st |-> "criterion", y_pred |-> <<b, c>>, y_true |-> <<b, c>>,
       weights |-> IF w THEN Some(<<b, c, 2>>) ELSE None, reduction |-> r, unweighted_loss |-> None,
       weighted_loss |-> None, rowwise_meaned |-> None, tot_loss |-> None,
       error |-> "none"] :
        b \in 1 .. MaxBatch, c \in Classes,
        w \in BOOLEAN, r \in {"mean", "sum"} }

InitLoss ==
    /\ ParkedFit
    /\ sm = NoCall
    /\ sa = Idle
    /\ sip = Idle
    /\ bce \in LossCalls
    /\ lp = Idle

\* nn.BCELoss(reduction = 'none') keeps the shape of its input, lines 19-20
Criterion ==
    /\ bce.st = "criterion"
    /\ bce' = [bce EXCEPT !.st = "weigh", !.unweighted_loss = Some(bce.y_pred)]
    /\ UNCHANGED <<fitvars, sm, sa, sip, lp>>

\* weights[:, :, k]: the last dimension is indexed away
DropLast(shape) == SubSeq(shape, 1, Len(shape) - 1)

\* lines 22-26: an elementwise product of tensors of one shape, or 1 * loss
Weigh ==
    /\ bce.st = "weigh"
    /\ LET w == IF bce.weights # None THEN DropLast(bce.weights[1])
                                      ELSE bce.unweighted_loss[1]
       IN  /\ w = bce.unweighted_loss[1]
           /\ bce' = [bce EXCEPT !.st = "mean", !.weighted_loss = Some(w)]
    /\ UNCHANGED <<fitvars, sm, sa, sip, lp>>

MeanDim1(shape) == <<shape[1]>> \o SubSeq(shape, 3, Len(shape))

\* torch.mean(t, dim = 0) removes the first dimension, line 28
MeanDim0(shape) == Tail(shape)

RowwiseMean ==
    /\ bce.st = "mean"
    /\ bce' = [bce EXCEPT !.st = "assert",
                          !.rowwise_meaned = Some(MeanDim0(bce.weighted_loss[1]))]
    /\ UNCHANGED <<fitvars, sm, sa, sip, lp>>

\* line 29 fails
AssertShapeRaises ==
    /\ bce.st = "assert"
    /\ bce.rowwise_meaned[1] # <<NumSubstructures>>
    /\ bce' = [bce EXCEPT !.st = "raised", !.error = "AssertionError"]
    /\ UNCHANGED <<fitvars, sm, sa, sip, lp>>

\* line 29 passes; torch.sum gives a tensor of shape (), lines 31-32
SumAndReturn ==
    /\ bce.st = "assert"
    /\ bce.rowwise_meaned[1] = <<NumSubstructures>>
    /\ bce' = [bce EXCEPT !.st = "returned", !.tot_loss = Some(<<>>)]
    /\ UNCHANGED <<fitvars, sm, sa, sip, lp>>

NextLoss ==
    \/ Criterion
    \/ Weigh
    \/ RowwiseMean
    \/ AssertShapeRaises
    \/ SumAndReturn

SpecLoss == InitLoss /\ [][NextLoss]_vars

LossCallOver == bce.st \in {"raised", "returned"}

\* C15: a call whose predictions have a number of classes other than 957
\* ends in an AssertionError with no loss value, with and without weights;
\* a call with exactly 957 classes passes the assertion and returns a scalar
\* (a tensor of shape ()); a call past the assertion has 957 classes.
C15_ClassCountAsserted ==
    /\ LossCallOver /\ bce.y_pred[2] # NumSubstructures =>
            bce.st = "raised" /\ bce.error = "AssertionError"
                              /\ bce.tot_loss = None
    /\ LossCallOver /\ bce.y_pred[2] = NumSubstructures =>
            bce.st = "returned" /\ bce.error = "none"
                                /\ bce.tot_loss = Some(<<>>)
    /\ bce.tot_loss # None => bce.y_pred[2] = NumSubstructures

\* a weighted call with one class too many, stopped by the assertion
C15_Witness ==
    /\ bce.st = "raised"
    /\ bce.weights # None
    /\ bce.y_pred[2] = NumSubstructures + 1
    /\ bce.error = "AssertionError"

\* --------------------------- train_loop, validation_loop and test_loop
\* bounds of one pass over a split
MaxBatches == 3

MaxLoopEpoch == 2

MaxWriteFreq == 2

\* loss.item() of one batch
BatchLosses == {1, 2}

Kinds == {"train", "val", "test"}

\* the tags of lines 43-44, 72-73 and 101-102
StepName ==
    [train |-> "Training Step Loss", val |-> "Validation Step Loss",
     test |-> "Test Step Loss"]

AvgName ==
    [train |-> "Avg. Epoch Train Loss", val |-> "Avg. Epoch Validation Loss",
     test |-> "Avg. Epoch Test Loss"]

\* one call: B is len(dataloader), the number of batches the loader yields;
\* a quotient n / d is kept as the pair <<n, d>>
LoopCalls ==
    [st : {"loop"}, kind : Kinds, epoch : 0 .. MaxLoopEpoch,
     B : 0 .. MaxBatches, write_freq : 1 .. MaxWriteFreq, ibatch : {0},
     tot_loss : {0}, events : {<<>>}, prints : {<<>>}, result : {None},
     error : {"none"}]

InitLoop ==
    /\ ParkedFit
    /\ sm = NoCall
    /\ sa = Idle
    /\ sip = Idle
    /\ bce = Idle
    /\ lp \in LoopCalls

InnerStepNoLen(e, len, ibatch) == e + ibatch

\* inner_step = int((epoch * len(dataloader)) + ibatch), lines 31, 66, 95
InnerStep(e, len, ibatch) == (e * len) + ibatch

\* one iteration of the for loop, lines 30-43, 65-72, 94-101
LoopBatch ==
    /\ lp.st = "loop"
    /\ lp.ibatch < lp.B
    /\ \E loss \in BatchLosses :
         LET inner_step == InnerStep(lp.epoch, lp.B, lp.ibatch)
         IN  lp' = [lp EXCEPT
                 !.prints = IF lp.ibatch % lp.write_freq = 0
                              THEN Append(@, lp.ibatch) ELSE @,
                 !.tot_loss = @ + loss,
                 !.events = Append(@, [name |-> StepName[lp.kind],
                                       value |-> <<loss, 1>>,
                                       step |-> inner_step]),
                 !.ibatch = @ + 1]
    /\ UNCHANGED <<fitvars, sm, sa, sip, bce>>

\* model.get_loss (or the optimizer's step) raises, lines 32-35, 67, 96
LoopBatchRaises ==
    /\ lp.st = "loop"
    /\ lp.ibatch < lp.B
    /\ lp' = [lp EXCEPT !.st = "raised", !.error = "loss"]
    /\ UNCHANGED <<fitvars, sm, sa, sip, bce>>

\* after the loop: the average event and the return, lines 44-45, 73-74,
\* 102-103
LoopAverage ==
    /\ lp.st = "loop"
    /\ lp.ibatch = lp.B
    /\ lp.B # 0
    /\ lp' = [lp EXCEPT
            !.events = Append(@, [name |-> AvgName[lp.kind],
                                  value |-> <<lp.tot_loss, lp.B>>,
                                  step |-> lp.epoch]),
            !.result = Some(<<lp.tot_loss, lp.B>>),
            !.st = "returned"]
    /\ UNCHANGED <<fitvars, sm, sa, sip, bce>>

\* tot_loss / len(dataloader) with an empty loader, lines 44, 73, 102
LoopAverageRaises ==
    /\ lp.st = "loop"
    /\ lp.ibatch = lp.B
    /\ lp.B = 0
    /\ lp' = [lp EXCEPT !.st = "raised", !.error = "ZeroDivisionError"]
    /\ UNCHANGED <<fitvars, sm, sa, sip, bce>>

NextLoop ==
    \/ LoopBatch
    \/ LoopBatchRaises
    \/ LoopAverage
    \/ LoopAverageRaises

SpecLoop == InitLoop /\ [][NextLoop]_vars

\* the batch numbers, among the first n, that print a progress line
PrintedOf(n, wf) == {i \in 0 .. n - 1 : i % wf = 0}

\* C16: in a pass of any of the three loops at epoch e over B batches, the
\* k-th event is the step-loss event of batch k - 1 with step e * B + k - 1,
\* one per batch and in batch order; the batches that printed a line are
\* those with i % write_freq = 0, once each; and a pass that ran all its
\* batches ends with one average event with step e, after the last batch,
\* the only average event of the pass.
C16_LoopEvents ==
    /\ \A k \in 1 .. lp.ibatch :
          /\ lp.events[k].name = StepName[lp.kind]
          /\ lp.events[k].step = (lp.epoch * lp.B) + k - 1
    /\ Len(lp.events) = lp.ibatch + (IF lp.st = "returned" THEN 1 ELSE 0)
    /\ {lp.prints[k] : k \in 1 .. Len(lp.prints)}
          = PrintedOf(lp.ibatch, lp.write_freq)
    /\ Len(lp.prints) = Cardinality(PrintedOf(lp.ibatch, lp.write_freq))
    /\ lp.st = "returned" =>
          /\ lp.ibatch = lp.B
          /\ lp.events[lp.B + 1].name = AvgName[lp.kind]
          /\ lp.events[lp.B + 1].step = lp.epoch
    /\ lp.st = "loop" /\ lp.ibatch = lp.B /\ lp.B >= 1 => ENABLED LoopAverage

\* a test pass at a later epoch over three batches, printing every second one
C16_Witness ==
    /\ lp.st = "returned"
    /\ lp.kind = "test"
    /\ lp.epoch >= 1
    /\ lp.B = MaxBatches
    /\ lp.write_freq = 2
    /\ Len(lp.prints) = 2

====
